---- MODULE Spec2Model ----
(***************************************************************************)
(* Model of backend/mcp_server.py of llm-council: the two tool handlers    *)
(* handle_council_query and handle_council_stage1, run as asyncio tasks    *)
(* that interleave at their await points and share the module attributes   *)
(* backend_config.COUNCIL_MODELS / backend_config.CHAIRMAN_MODEL and the   *)
(* conversation store.                                                     *)
(*                                                                         *)
(* A task's pc names the line of the await at which its coroutine is       *)
(* suspended ("L203" = handle_council_query awaiting line 203, "S344" =    *)
(* handle_council_stage1 awaiting line 344).  One action resumes a task    *)
(* from its await and runs the synchronous code up to the next await (or   *)
(* up to the return, with the finally block).                              *)
(*                                                                         *)
(* backend/council.py, backend/storage.py and backend/config.py are not    *)
(* part of the sources at hand; the stage calls, the title generation and  *)
(* the store operations are modelled from the specification's contracts.   *)
(***************************************************************************)
EXTENDS Integers, Sequences, FiniteSets, TLC

\* The asyncio tasks that can run a tool handler at the same time (the
\* server runs each call_tool request in a task of its own).
Tasks == {1, 2}

\* Number of tool invocations started in one behaviour (a task that has
\* returned can serve a further invocation).
MaxInvocations == 2

\* from .config import COUNCIL_MODELS, CHAIRMAN_MODEL: the names bound at
\* import time, i.e. the startup defaults; the handlers never rebind them.
COUNCIL_MODELS == <<"a", "b">>

CHAIRMAN_MODEL == "ch0"

\* Values a caller passes for council_models / chairman_model (a caller that
\* omits the argument gets the default through arguments.get).
CouncilArgs == {COUNCIL_MODELS, <<"c">>}

ChairmanArgs == {CHAIRMAN_MODEL, "ch1"}

\* The only question asked.
Question == "q"

\* Which calls of a fan-out over the list models succeed: none, only the
\* first, or all of them.
SuccessSets(models) == {{}, {models[1]}, {models[i] : i \in 1..Len(models)}}

\* Which rankers of a fan-out over the list models submit a valid ranking:
\* none or all of them.
ValidSets(models) == {{}, {models[i] : i \in 1..Len(models)}}

VARIABLES
    cfgCouncil,   \* backend_config.COUNCIL_MODELS
    cfgChairman,  \* backend_config.CHAIRMAN_MODEL
    store,        \* the conversation store, by conversation id
    started,      \* invocations started so far (source of fresh ids)
    inv           \* per task: the handler's frame (arguments, locals, pc)

vars == <<cfgCouncil, cfgChairman, store, started, inv>>

----------------------------------------------------------------------------
\* Data shapes

Range(s) == {s[i] : i \in 1..Len(s)}

NoSynthesis == [model |-> "", ok |-> FALSE]

NoOutcome ==
    [kind |-> "none", stage1_responses |-> <<>>, stage2_rankings |-> <<>>,
     stage3_synthesis |-> NoSynthesis, label_to_model |-> <<>>,
     aggregate_rankings |-> <<>>, conversation_id |-> 0,
     models_queried |-> 0, responses_received |-> 0]

\* A handler frame before its invocation.  Besides the handler's arguments
\* and locals it records, for reference, what the invocation did: the calls
\* it made (calls), how each stage call ended (stageN_outcome), which call
\* raised into the except clause (fault) and whether a notification failed
\* (log_failed), and how it was entered: the shared configuration it found
\* (entry_council, entry_chairman) and whether another handler was running
\* then (overlapped).
IdleFrame ==
    [pc |-> "idle", id |-> 0, tool |-> "none",
     council_models |-> <<>>, chairman_model |-> "", save_conversation |-> FALSE,
     original_council |-> <<>>, original_chairman |-> "",
     stage1_results |-> <<>>, stage2_results |-> <<>>, label_to_model |-> <<>>,
     aggregate_rankings |-> <<>>, stage3_result |-> NoSynthesis,
     conversation_id |-> 0, calls |-> <<>>, fault |-> "none",
     log_failed |-> FALSE, stage1_outcome |-> "none", stage2_outcome |-> "none",
     stage3_outcome |-> "none", outcome |-> NoOutcome,
     entry_council |-> <<>>, entry_chairman |-> "", overlapped |-> FALSE]

NoConversation == [exists |-> FALSE, title |-> "", messages |-> <<>>]

\* storage.create_conversation: a new conversation with the placeholder title.
NewConversation == [exists |-> TRUE, title |-> "New Conversation", messages |-> <<>>]

ConvIds == 0..MaxInvocations

\* Conversation 0 was saved by an earlier run of the server.
OldConversation ==
    [exists |-> TRUE, title |-> "old",
     messages |-> <<[role |-> "user", content |-> "old"],
                    [role |-> "assistant", content |-> "old"]>>]

InitStore == [c \in ConvIds |-> IF c = 0 THEN OldConversation ELSE NoConversation]

----------------------------------------------------------------------------
Init ==
    /\ cfgCouncil = COUNCIL_MODELS
    /\ cfgChairman = CHAIRMAN_MODEL
    /\ store = InitStore
    /\ started = 0
    /\ inv = [t \in Tasks |-> IdleFrame]

----------------------------------------------------------------------------
\* The collaborators the handlers call (backend/council.py), by their
\* contracts.

\* Stage 1 (Response Collector): one outcome per model of the configured
\* council, in the order of that list, where ok is the set of models whose
\* call succeeded; zero successes is signalled by an empty result.
stage1_collect_responses(models, ok) ==
    IF ok \cap Range(models) = {}
    THEN <<>>
    ELSE [i \in 1..Len(models) |-> [model |-> models[i], ok |-> models[i] \in ok]]

\* The responses later stages use: the successful ones.
Successful(stage1_results) == SelectSeq(stage1_results, LAMBDA r : r.ok)

\* Anonymizer: label i stands for the i-th successful response.
LabelToModel(stage1_results) ==
    [i \in 1..Len(Successful(stage1_results)) |-> Successful(stage1_results)[i].model]

\* Stage 2 (Ranking Collector): one submission per model of the configured
\* council; a valid one ranks every label, an invalid one is kept for
\* diagnostics with no usable ranking.
stage2_collect_rankings(models, valid, stage1_results) ==
    [i \in 1..Len(models) |->
        [model |-> models[i],
         valid |-> models[i] \in valid,
         ranking |-> IF models[i] \in valid
                     THEN [k \in 1..Len(LabelToModel(stage1_results)) |-> k]
                     ELSE <<>>]]

ValidSubmissions(stage2_results) == SelectSeq(stage2_results, LAMBDA s : s.valid)

\* Position of label l in a ranking (0 when the ranking omits it).
PositionIn(ranking, l) ==
    IF \E k \in 1..Len(ranking) : ranking[k] = l
    THEN CHOOSE k \in 1..Len(ranking) : ranking[k] = l
    ELSE 0

RECURSIVE SumScores(_, _, _)
SumScores(subs, l, n) ==
    IF subs = <<>> THEN 0
    ELSE (IF PositionIn(Head(subs).ranking, l) = 0 THEN 0
          ELSE n - PositionIn(Head(subs).ranking, l))
         + SumScores(Tail(subs), l, n)

\* Rank Aggregator: positional points summed over the valid submissions,
\* descending, ties kept in label order; no valid submission, no ranking.
calculate_aggregate_rankings(stage2_results, label_to_model) ==
    LET subs == ValidSubmissions(stage2_results)
        n == Len(label_to_model)
        score(l) == SumScores(subs, l, n)
        before(x, y) == score(x) > score(y) \/ (score(x) = score(y) /\ x < y)
        order == CHOOSE p \in [1..n -> 1..n] :
                    /\ \A i, j \in 1..n : i # j => p[i] # p[j]
                    /\ \A i, j \in 1..n : i < j => before(p[i], p[j])
    IN  IF subs = <<>> THEN <<>>
        ELSE [i \in 1..n |-> [model |-> label_to_model[order[i]],
                              score |-> score(order[i])]]

\* How a stage call ended, for reference.
Stage1Outcome(models, ok) ==
    IF stage1_collect_responses(models, ok) = <<>> THEN "empty" ELSE "responses"

Stage2Outcome(stage2_results) ==
    IF ValidSubmissions(stage2_results) = <<>> THEN "no_valid" ELSE "valid"

\* Stage 3 (Synthesizer): the chairman's SynthesisResult.  A failed chairman
\* call is attached to the result (ok is FALSE), not thrown.
stage3_synthesize_final(chairman, ok) == [model |-> chairman, ok |-> ok]

Stage3Outcome(ok) == IF ok THEN "ok" ELSE "failed"

\* generate_conversation_title(question)
generate_conversation_title(question) == "title of q"

----------------------------------------------------------------------------
\* Pieces of the handlers

\* A request is served by the first task that runs no handler.
Free(t) ==
    /\ inv[t].pc \in {"idle", "done"}
    /\ \A u \in Tasks : u < t => inv[u].pc \notin {"idle", "done"}

\* Another handler is suspended at an await.
OthersRunning(t) == \E u \in Tasks \ {t} : inv[u].pc \notin {"idle", "done"}

\* "if council_models != COUNCIL_MODELS: backend_config.COUNCIL_MODELS = ..."
Override(requested, default, current) ==
    IF requested # default THEN requested ELSE current

\* Variant: the emptiness test of line 210 never fires.
NoResponsesIgnored(stage1_results) == FALSE

\* "if not stage1_results"
NoResponses(stage1_results) == stage1_results = <<>>

\* The await that follows a progress notification that has no code between
\* it and the next await.
NextAwait(pc) ==
    CASE pc = "L192" -> "L197"
      [] pc = "L197" -> "L203"
      [] pc = "L218" -> "L224"
      [] pc = "L224" -> "L230"
      [] pc = "L233" -> "L239"
      [] pc = "L239" -> "L245"

PlainLogLines == {"L192", "L197", "L218", "L224", "L233", "L239"}

\* Variant: the conversation is saved whatever save_conversation says.
SaveAlways(f) == TRUE

\* "if save_conversation"
SaveRequested(f) == f.save_conversation

\* The response dictionary of lines 282-292.
CouncilResponse(f) ==
    [NoOutcome EXCEPT
        !.kind = "council_result",
        !.stage1_responses = f.stage1_results,
        !.stage2_rankings = f.stage2_results,
        !.stage3_synthesis = f.stage3_result,
        !.label_to_model = f.label_to_model,
        !.aggregate_rankings = f.aggregate_rankings,
        !.conversation_id = f.conversation_id]

\* "Error: All models failed to respond. ..."
AllFailedResponse == [NoOutcome EXCEPT !.kind = "all_failed"]

\* "Error: {str(e)} Full details: ..." (council_query) and
\* "Error in council_stage1: {str(e)} ..." (council_stage1)
ErrorResponse(f) == [NoOutcome EXCEPT !.kind = "error"]

\* The exception leaves the handler: the caller gets no return value.
Raised == [NoOutcome EXCEPT !.kind = "raised"]

\* The handler's task was cancelled: CancelledError leaves the handler, the
\* caller gets no return value.
Cancelled == [NoOutcome EXCEPT !.kind = "cancelled"]

\* The response dictionary of lines 354-359.
Stage1Response(f) ==
    [NoOutcome EXCEPT
        !.kind = "stage1_result",
        !.stage1_responses = f.stage1_results,
        !.models_queried = Len(f.council_models),
        !.responses_received = Len(f.stage1_results)]

\* What is left of a frame once the handler has returned: its locals are
\* gone; the arguments and the record of what it did are kept for reference.
Returned(f, out) ==
    [IdleFrame EXCEPT
        !.pc = "done", !.id = f.id, !.tool = f.tool,
        !.council_models = f.council_models, !.chairman_model = f.chairman_model,
        !.save_conversation = f.save_conversation,
        !.calls = f.calls, !.fault = f.fault, !.log_failed = f.log_failed,
        !.stage1_outcome = f.stage1_outcome, !.stage2_outcome = f.stage2_outcome,
        !.stage3_outcome = f.stage3_outcome,
        !.outcome = out]

\* Variant: the finally block of handle_council_stage1 is the one of
\* handle_council_query and assigns the chairman as well.
FinishRestoresBoth(t, f, out) ==
    /\ inv' = [inv EXCEPT ![t] = Returned(f, out)]
    /\ cfgCouncil' = f.original_council
    /\ cfgChairman' = f.original_chairman

\* Variant: there is no finally block; the override stays.
FinishKeepsOverride(t, f, out) ==
    /\ inv' = [inv EXCEPT ![t] = Returned(f, out)]
    /\ UNCHANGED <<cfgCouncil, cfgChairman>>

\* return (or raise) through the finally block, which restores the
\* configuration saved at entry.
Finish(t, f, out) ==
    /\ inv' = [inv EXCEPT ![t] = Returned(f, out)]
    /\ cfgCouncil' = f.original_council
    /\ cfgChairman' = IF f.tool = "council_query" THEN f.original_chairman
                      ELSE cfgChairman

\* Variant: a failure of the Stage 3 call is swallowed and the run goes on
\* at line 251.
ExceptSwallowsStage3(t, f, why) ==
    /\ inv' = [inv EXCEPT ![t] =
                 [f EXCEPT !.pc = IF why = "stage3" THEN "L251" ELSE "L305",
                           !.fault = why]]
    /\ UNCHANGED <<cfgCouncil, cfgChairman>>

\* An exception inside the try block of handle_council_query: control is at
\* the await of the except clause.
Except(t, f, why) ==
    /\ inv' = [inv EXCEPT ![t] = [f EXCEPT !.pc = "L305", !.fault = why]]
    /\ UNCHANGED <<cfgCouncil, cfgChairman>>

Called(f, name) == [f EXCEPT !.calls = Append(@, name)]

----------------------------------------------------------------------------
\* handle_council_query

\* Lines 176-189, up to the first await.
BeginQuery(t) ==
    /\ Free(t)
    /\ started < MaxInvocations
    /\ \E cm \in CouncilArgs, ch \in ChairmanArgs, sv \in BOOLEAN :
        /\ inv' = [inv EXCEPT ![t] =
                     [IdleFrame EXCEPT
                         !.pc = "L192", !.id = started + 1,
                         !.tool = "council_query",
                         !.council_models = cm, !.chairman_model = ch,
                         !.save_conversation = sv,
                         !.original_council = cfgCouncil,
                         !.original_chairman = cfgChairman,
                         !.entry_council = cfgCouncil,
                         !.entry_chairman = cfgChairman,
                         !.overlapped = OthersRunning(t)]]
        /\ cfgCouncil' = Override(cm, COUNCIL_MODELS, cfgCouncil)
        /\ cfgChairman' = Override(ch, CHAIRMAN_MODEL, cfgChairman)
    /\ started' = started + 1
    /\ UNCHANGED store

\* A progress notification (lines 192, 197, 218, 224, 233, 239) is sent, or
\* send_log_message raises.
LogQuery(t) ==
    /\ inv[t].pc \in PlainLogLines
    /\ \/ /\ inv' = [inv EXCEPT ![t].pc = NextAwait(@)]
          /\ UNCHANGED <<cfgCouncil, cfgChairman>>
       \/ Except(t, [inv[t] EXCEPT !.log_failed = TRUE], "log")
    /\ UNCHANGED <<store, started>>

\* Line 203: Stage 1 runs with the configuration it finds.
Stage1Query(t) ==
    /\ inv[t].pc = "L203"
    /\ \/ \E ok \in SuccessSets(cfgCouncil) :
            /\ inv' = [inv EXCEPT ![t] =
                         [Called(@, "stage1") EXCEPT
                             !.pc = "L205",
                             !.stage1_results = stage1_collect_responses(cfgCouncil, ok),
                             !.stage1_outcome = Stage1Outcome(cfgCouncil, ok)]]
            /\ UNCHANGED <<cfgCouncil, cfgChairman>>
       \/ Except(t, [Called(inv[t], "stage1") EXCEPT !.stage1_outcome = "raised"],
                  "stage1")
    /\ UNCHANGED <<store, started>>

\* Lines 205-216: the notification, then the early return when Stage 1
\* returned nothing.
Log205(t) ==
    /\ inv[t].pc = "L205"
    /\ \/ IF NoResponses(inv[t].stage1_results)
          THEN Finish(t, inv[t], AllFailedResponse)
          ELSE /\ inv' = [inv EXCEPT ![t].pc = "L218"]
               /\ UNCHANGED <<cfgCouncil, cfgChairman>>
       \/ Except(t, [inv[t] EXCEPT !.log_failed = TRUE], "log")
    /\ UNCHANGED <<store, started>>

\* Lines 230-231: Stage 2 with the configuration it finds, then the
\* aggregate ranking.
Stage2Query(t) ==
    /\ inv[t].pc = "L230"
    /\ \/ \E valid \in ValidSets(cfgCouncil) :
            LET s2 == stage2_collect_rankings(cfgCouncil, valid, inv[t].stage1_results)
                l2m == LabelToModel(inv[t].stage1_results)
            IN  inv' = [inv EXCEPT ![t] =
                          [Called(Called(@, "stage2"), "aggregate") EXCEPT
                              !.pc = "L233",
                              !.stage2_outcome = Stage2Outcome(s2),
                              !.stage2_results = s2,
                              !.label_to_model = l2m,
                              !.aggregate_rankings = calculate_aggregate_rankings(s2, l2m)]]
          /\ UNCHANGED <<cfgCouncil, cfgChairman>>
       \/ Except(t, [Called(inv[t], "stage2") EXCEPT !.stage2_outcome = "raised"],
                  "stage2")
    /\ UNCHANGED <<store, started>>

\* Line 245: Stage 3 with the chairman it finds configured.  The handler
\* does not look into stage3_result: whether the synthesis succeeded or
\* carries an error, the run goes on at line 251.  Or the await raises.
Stage3Query(t) ==
    /\ inv[t].pc = "L245"
    /\ \/ \E ok \in BOOLEAN :
            /\ inv' = [inv EXCEPT ![t] =
                         [Called(@, "stage3") EXCEPT
                             !.pc = "L251",
                             !.stage3_outcome = Stage3Outcome(ok),
                             !.stage3_result = stage3_synthesize_final(cfgChairman, ok)]]
            /\ UNCHANGED <<cfgCouncil, cfgChairman>>
       \/ Except(t, [Called(inv[t], "stage3") EXCEPT !.stage3_outcome = "raised"],
                  "stage3")
    /\ UNCHANGED <<store, started>>

\* Lines 251-269: the last notification; then either the conversation is
\* created and the title requested, or the response is returned unsaved.
Log251(t) ==
    /\ inv[t].pc = "L251"
    /\ \/ /\ SaveRequested(inv[t])
          /\ LET f == Called([inv[t] EXCEPT !.conversation_id = inv[t].id],
                             "create_conversation")
             IN  \/ /\ store' = [store EXCEPT ![f.conversation_id] = NewConversation]
                    /\ inv' = [inv EXCEPT ![t] =
                                 [Called(f, "generate_title") EXCEPT !.pc = "L269"]]
                    /\ UNCHANGED <<cfgCouncil, cfgChairman>>
                 \/ /\ Except(t, f, "storage")
                    /\ UNCHANGED store
       \/ /\ ~SaveRequested(inv[t])
          /\ Finish(t, inv[t], CouncilResponse(inv[t]))
          /\ UNCHANGED store
       \/ /\ Except(t, [inv[t] EXCEPT !.log_failed = TRUE], "log")
          /\ UNCHANGED store
    /\ UNCHANGED started

StorageOps == <<"update_conversation_title", "add_user_message", "add_assistant_message">>

\* Variant: the user message is appended after the assistant message.
PersistedAssistantFirst(conv, f, n) ==
    [conv EXCEPT
        !.title = IF n >= 1 THEN generate_conversation_title(Question) ELSE @,
        !.messages =
            (IF n >= 3
             THEN <<[role |-> "assistant",
                     stage1 |-> f.stage1_results,
                     stage2 |-> f.stage2_results,
                     stage3 |-> f.stage3_result]>>
             ELSE <<>>)
            \o (IF n >= 2 THEN <<[role |-> "user", content |-> Question]>> ELSE <<>>)]

\* The store after the first n of the three operations of lines 270-279.
Persisted(conv, f, n) ==
    [conv EXCEPT
        !.title = IF n >= 1 THEN generate_conversation_title(Question) ELSE @,
        !.messages =
            (IF n >= 2 THEN <<[role |-> "user", content |-> Question]>> ELSE <<>>)
            \o (IF n >= 3
                THEN <<[role |-> "assistant",
                        stage1 |-> f.stage1_results,
                        stage2 |-> f.stage2_results,
                        stage3 |-> f.stage3_result]>>
                ELSE <<>>)]

RECURSIVE CalledAll(_, _, _)
CalledAll(f, names, n) ==
    IF n = 0 THEN f ELSE Called(CalledAll(f, names, n - 1), names[n])

\* Lines 269-299: the title arrives; it and the two messages are stored
\* (any of the three store operations may raise), and the response is
\* returned.  Or the await of generate_conversation_title raises: the
\* except clause is entered with no further storage call made.
TitleQuery(t) ==
    /\ inv[t].pc = "L269"
    /\ \/ /\ Except(t, inv[t], "title")
          /\ UNCHANGED store
       \/ /\ store' = [store EXCEPT ![inv[t].conversation_id] = Persisted(@, inv[t], 3)]
          /\ LET f == CalledAll(inv[t], StorageOps, 3)
             IN  Finish(t, f, CouncilResponse(f))
       \/ \E failing \in 1..3 :
            /\ store' = [store EXCEPT ![inv[t].conversation_id] =
                            Persisted(@, inv[t], failing - 1)]
            /\ Except(t, CalledAll(inv[t], StorageOps, failing), "storage")
    /\ UNCHANGED started

\* Lines 301-320: the except clause's notification, then the error text is
\* returned; if that notification raises, the exception leaves the handler.
ExceptQuery(t) ==
    /\ inv[t].pc = "L305"
    /\ \/ Finish(t, inv[t], ErrorResponse(inv[t]))
       \/ Finish(t, [inv[t] EXCEPT !.log_failed = TRUE], Raised)
    /\ UNCHANGED <<store, started>>

----------------------------------------------------------------------------
\* handle_council_stage1

\* Lines 325-333, up to the first await.
BeginStage1(t) ==
    /\ Free(t)
    /\ started < MaxInvocations
    /\ \E cm \in CouncilArgs :
        /\ inv' = [inv EXCEPT ![t] =
                     [IdleFrame EXCEPT
                         !.pc = "S337", !.id = started + 1,
                         !.tool = "council_stage1",
                         !.council_models = cm,
                         !.original_council = cfgCouncil,
                         !.entry_council = cfgCouncil,
                         !.entry_chairman = cfgChairman,
                         !.overlapped = OthersRunning(t)]]
        /\ cfgCouncil' = Override(cm, COUNCIL_MODELS, cfgCouncil)
    /\ started' = started + 1
    /\ UNCHANGED <<cfgChairman, store>>

\* Lines 336-342: the notification, whose failure is swallowed.
LogStage1(t) ==
    /\ inv[t].pc = "S337"
    /\ \/ inv' = [inv EXCEPT ![t].pc = "S344"]
       \/ inv' = [inv EXCEPT ![t] = [@ EXCEPT !.pc = "S344", !.log_failed = TRUE]]
    /\ UNCHANGED <<cfgCouncil, cfgChairman, store, started>>

\* Lines 344-366: Stage 1 with the configuration it finds, and the return.
Stage1Tool(t) ==
    /\ inv[t].pc = "S344"
    /\ \/ \E ok \in SuccessSets(cfgCouncil) :
            LET f == [Called(inv[t], "stage1") EXCEPT
                         !.stage1_results = stage1_collect_responses(cfgCouncil, ok),
                         !.stage1_outcome = Stage1Outcome(cfgCouncil, ok)]
            IN  IF NoResponses(f.stage1_results)
                THEN Finish(t, f, AllFailedResponse)
                ELSE Finish(t, f, Stage1Response(f))
       \/ /\ inv' = [inv EXCEPT ![t] =
                       [Called(@, "stage1") EXCEPT
                           !.pc = "S373", !.fault = "stage1",
                           !.stage1_outcome = "raised"]]
          /\ UNCHANGED <<cfgCouncil, cfgChairman>>
    /\ UNCHANGED <<store, started>>

\* Lines 368-388: the except clause; its notification's failure is swallowed.
ExceptStage1(t) ==
    /\ inv[t].pc = "S373"
    /\ \/ Finish(t, inv[t], ErrorResponse(inv[t]))
       \/ Finish(t, [inv[t] EXCEPT !.log_failed = TRUE], ErrorResponse(inv[t]))
    /\ UNCHANGED <<store, started>>

----------------------------------------------------------------------------
\* The request is cancelled while the handler is suspended at an await:
\* CancelledError is raised there.  It is no Exception, so neither handler's
\* except clause (lines 301, 341, 368, 377) catches it; the finally block
\* runs and the error leaves the handler.
Cancel(t) ==
    /\ inv[t].pc \notin {"idle", "done"}
    /\ Finish(t, [inv[t] EXCEPT !.fault = "cancelled"], Cancelled)
    /\ UNCHANGED <<store, started>>

----------------------------------------------------------------------------
Next ==
    \E t \in Tasks :
        \/ BeginQuery(t)
        \/ LogQuery(t)
        \/ Stage1Query(t)
        \/ Log205(t)
        \/ Stage2Query(t)
        \/ Stage3Query(t)
        \/ Log251(t)
        \/ TitleQuery(t)
        \/ ExceptQuery(t)
        \/ BeginStage1(t)
        \/ LogStage1(t)
        \/ Stage1Tool(t)
        \/ ExceptStage1(t)
        \/ Cancel(t)

Spec == Init /\ [][Next]_vars

----------------------------------------------------------------------------
\* Vocabulary of the properties

Running(t) == inv[t].pc \notin {"idle", "done"}

Done(t) == inv[t].pc = "done"

IsQuery(t) == inv[t].tool = "council_query"

ModelsOf(results) == [i \in 1..Len(results) |-> results[i].model]

IsPrefix(s, full) ==
    /\ Len(s) =< Len(full)
    /\ \A i \in 1..Len(s) : s[i] = full[i]

\* The calls of a complete, saved council_query run, in the order of the code.
QueryCalls ==
    <<"stage1", "stage2", "aggregate", "stage3", "create_conversation",
      "generate_title", "update_conversation_title", "add_user_message",
      "add_assistant_message">>

StorageCalls ==
    {"create_conversation", "update_conversation_title", "add_user_message",
     "add_assistant_message"}

\* The stage calls task t has made so far ran with the models it requested.
StagesUseOwnSelection(t) ==
    /\ inv[t].stage1_results # <<>> =>
            ModelsOf(inv[t].stage1_results) = inv[t].council_models
    /\ inv[t].stage2_results # <<>> =>
            ModelsOf(inv[t].stage2_results) = inv[t].council_models
    /\ inv[t].stage3_result.ok =>
            inv[t].stage3_result.model = inv[t].chairman_model

----------------------------------------------------------------------------
\* C1: whenever two council_query invocations that requested different
\* council models or chairmen are in progress together, the results of every
\* stage call either of them has made come from exactly the council models
\* (stages 1 and 2) and the chairman (stage 3) that this invocation requested.
C1_OverlappingQueriesKeepOwnModels ==
    \A t, u \in Tasks :
        ( /\ t # u
          /\ IsQuery(t) /\ IsQuery(u)
          /\ Running(t) /\ Running(u)
          /\ \/ inv[t].council_models # inv[u].council_models
             \/ inv[t].chairman_model # inv[u].chairman_model )
        => StagesUseOwnSelection(t)

\* C2: a council_query run (not cancelled) whose Stage 1 returned an empty result ends with
\* the all-models-failed error, having called nothing but Stage 1.
C2_EmptyStage1EndsAllFailed ==
    \A t \in Tasks :
        ( /\ IsQuery(t) /\ Done(t) /\ inv[t].stage1_outcome = "empty"
          /\ inv[t].fault # "cancelled" )
        => /\ inv[t].outcome.kind = "all_failed"
           /\ inv[t].calls = <<"stage1">>

\* C3: in every council_query run the calls made so far are an initial part
\* of stage1, stage2, aggregate, stage3, ... (so each happens at most once and
\* in that order); Stage 2 has been called only if Stage 1 returned
\* responses, the aggregate computed only if Stage 2 returned, and Stage 3
\* called only if the aggregate was computed.
C3_StagesInOrder ==
    \A t \in Tasks :
        IsQuery(t) =>
            /\ IsPrefix(inv[t].calls, QueryCalls)
            /\ "stage2" \in Range(inv[t].calls) => inv[t].stage1_outcome = "responses"
            /\ "aggregate" \in Range(inv[t].calls) =>
                    inv[t].stage2_outcome \in {"no_valid", "valid"}
            /\ "stage3" \in Range(inv[t].calls) =>
                    /\ "aggregate" \in Range(inv[t].calls)
                    /\ inv[t].stage2_outcome \in {"no_valid", "valid"}

\* C3 witness: a run that has called Stage 3 after Stage 2 found no valid
\* ranking.
C3_Witness ==
    \E t \in Tasks :
        /\ IsQuery(t) /\ inv[t].pc = "L251"
        /\ inv[t].calls = <<"stage1", "stage2", "aggregate", "stage3">>

\* C4: a council_query run whose Stage 3 call failed (it returned a
\* synthesis carrying an error, or it raised) returns no council result and
\* not the all-models-failed error either, has made no storage call, and has
\* left no conversation of its own in the store.
C4_Stage3FailureAborts ==
    \A t \in Tasks :
        (IsQuery(t) /\ inv[t].stage3_outcome \in {"failed", "raised"})
        => /\ Done(t) => inv[t].outcome.kind \in {"error", "raised", "cancelled"}
           /\ Range(inv[t].calls) \cap StorageCalls = {}
           /\ store[inv[t].id] = NoConversation

\* C5: a council_query run whose stages all succeeded and in which a storage
\* operation failed (and every notification was sent) still returns the
\* council result.
C5_StorageFailureStillReturnsResult ==
    \A t \in Tasks :
        (IsQuery(t) /\ Done(t) /\ inv[t].fault = "storage" /\ ~inv[t].log_failed)
        => inv[t].outcome.kind = "council_result"

\* C6: the council result returned by council_query has exactly one Stage 1
\* entry per requested council model, in the order of the requested list.
C6_OneResponsePerRequestedModel ==
    \A t \in Tasks :
        (IsQuery(t) /\ Done(t) /\ inv[t].outcome.kind = "council_result")
        => ModelsOf(inv[t].outcome.stage1_responses) = inv[t].council_models

\* C7: a council_query run (not cancelled) in which Stage 1 returned responses and Stage 2
\* returned no valid ranking has, when it ends, called Stage 3, and if that
\* call succeeded it has returned a council result whose aggregate ranking is
\* empty.
C7_NoValidRankingStillSynthesizes ==
    \A t \in Tasks :
        ( /\ IsQuery(t) /\ Done(t)
          /\ inv[t].stage1_outcome = "responses"
          /\ inv[t].stage2_outcome = "no_valid"
          /\ inv[t].fault # "cancelled" )
        => /\ "stage3" \in Range(inv[t].calls)
           /\ inv[t].stage3_outcome = "ok" =>
                /\ inv[t].outcome.kind = "council_result"
                /\ inv[t].outcome.aggregate_rankings = <<>>

\* The Stage 3 call of the run has returned to the handler (it did not raise).
Stage3Returned(t) == inv[t].stage3_outcome \in {"ok", "failed"}

C9_LogFailureChangesNothing ==
    \A t \in Tasks :
        (Done(t) /\ inv[t].log_failed)
        => /\ inv[t].outcome.kind # "raised"
           /\ inv[t].fault \in {"none", "log"} =>
                inv[t].outcome.kind \in {"council_result", "stage1_result", "all_failed"}

\* C10: what council_query returns carries a conversation id exactly if
\* save_conversation was true and the council result is returned; a run with
\* save_conversation false makes no storage call, requests no title, and
\* leaves no conversation of its own in the store.
C10_ConversationIdIffSaved ==
    \A t \in Tasks :
        IsQuery(t) =>
            /\ Done(t) =>
                ( inv[t].outcome.conversation_id # 0
                  <=> (inv[t].save_conversation /\ inv[t].outcome.kind = "council_result") )
            /\ ~inv[t].save_conversation =>
                /\ Range(inv[t].calls) \cap (StorageCalls \cup {"generate_title"}) = {}
                /\ store[inv[t].id] = NoConversation

\* C10 witness: one run has returned a saved result with its conversation
\* id while another has returned an unsaved result.
C10_Witness ==
    \E t, u \in Tasks :
        /\ IsQuery(t) /\ Done(t) /\ inv[t].save_conversation
        /\ inv[t].outcome.conversation_id = inv[t].id
        /\ store[inv[t].id].exists
        /\ IsQuery(u) /\ Done(u) /\ ~inv[u].save_conversation
        /\ inv[u].outcome.kind = "council_result"

\* C11: an invocation (of either tool) that asked for the default council
\* gets every Stage 1 and Stage 2 result it has from exactly the startup
\* default council, and one that asked for the default chairman gets its
\* synthesis from the default chairman, whatever other invocations do or did.
C11_DefaultRunUsesDefaults ==
    \A t \in Tasks :
        /\ (inv[t].tool # "none" /\ inv[t].council_models = COUNCIL_MODELS) =>
            /\ inv[t].stage1_results # <<>> =>
                    ModelsOf(inv[t].stage1_results) = COUNCIL_MODELS
            /\ inv[t].stage2_results # <<>> =>
                    ModelsOf(inv[t].stage2_results) = COUNCIL_MODELS
            /\ inv[t].outcome.stage1_responses # <<>> =>
                    ModelsOf(inv[t].outcome.stage1_responses) = COUNCIL_MODELS
        /\ (IsQuery(t) /\ inv[t].chairman_model = CHAIRMAN_MODEL) =>
            /\ inv[t].stage3_result.ok => inv[t].stage3_result.model = CHAIRMAN_MODEL
            /\ inv[t].outcome.stage3_synthesis.ok =>
                    inv[t].outcome.stage3_synthesis.model = CHAIRMAN_MODEL

\* C12: when council_query returns a saved result, the last message of its
\* conversation is the assistant message and carries every part of the
\* returned result: the Stage 1 responses, the Stage 2 rankings, the
\* label_to_model mapping, the aggregate rankings and the synthesis.
C12_StoredPayloadIsReturnedResult ==
    \A t \in Tasks :
        ( /\ IsQuery(t) /\ Done(t)
          /\ inv[t].outcome.kind = "council_result"
          /\ inv[t].outcome.conversation_id # 0 )
        => LET msgs == store[inv[t].outcome.conversation_id].messages
               m == msgs[Len(msgs)]
           IN  /\ Len(msgs) >= 1
               /\ m.role = "assistant"
               /\ {"stage1", "stage2", "stage3", "label_to_model",
                   "aggregate_rankings"} \subseteq DOMAIN m
               /\ m.stage1 = inv[t].outcome.stage1_responses
               /\ m.stage2 = inv[t].outcome.stage2_rankings
               /\ m.stage3 = inv[t].outcome.stage3_synthesis
               /\ m.label_to_model = inv[t].outcome.label_to_model
               /\ m.aggregate_rankings = inv[t].outcome.aggregate_rankings

\* A step of task t's handler that leaves it in handle_council_stage1.
Stage1Step(t) ==
    /\ inv'[t].pc # inv[t].pc
    /\ inv'[t].tool = "council_stage1"

\* C13: no step of a council_stage1 invocation changes the conversation
\* store or the configured chairman, and the only call such an invocation
\* ever makes is the Stage 1 call.
C13_Stage1ToolOnlyStage1 ==
    [][\A t \in Tasks :
          Stage1Step(t) =>
              /\ store' = store
              /\ cfgChairman' = cfgChairman
              /\ IsPrefix(inv'[t].calls, <<"stage1">>)]_vars

\* C13 witness: a council_stage1 invocation has returned its responses,
\* having called Stage 1, while the store holds a conversation saved by a
\* council_query run.
C13_Witness ==
    \E t, u \in Tasks :
        /\ inv[t].tool = "council_stage1" /\ Done(t)
        /\ inv[t].outcome.kind = "stage1_result"
        /\ inv[t].calls = <<"stage1">>
        /\ IsQuery(u) /\ store[inv[u].id].exists


----------------------------------------------------------------------------
\* C14: a council_query run that was cancelled hands its caller a partial
\* result marked incomplete: not nothing (the cancellation error leaving the
\* handler), not an error text, not the all-models-failed error.
C14_CancelledRunReturnsPartialResult ==
    \A t \in Tasks :
        (IsQuery(t) /\ Done(t) /\ inv[t].fault = "cancelled")
        => inv[t].outcome.kind \notin {"cancelled", "raised", "error", "all_failed"}


----------------------------------------------------------------------------
\* No other invocation overlaps the one of task t: none was running when it
\* was entered, and none has been entered since.
NotOverlapped(t) == ~inv[t].overlapped /\ started = inv[t].id

\* C15: the step by which a council_query or council_stage1 invocation that
\* no other invocation overlapped leaves its handler (return, error text,
\* exception, cancellation) leaves backend_config.COUNCIL_MODELS and
\* backend_config.CHAIRMAN_MODEL at the values they had at handler entry.
C15_LoneInvocationRestoresConfig ==
    [][\A t \in Tasks :
          (Running(t) /\ inv'[t].pc = "done" /\ NotOverlapped(t))
          => /\ cfgCouncil' = inv[t].entry_council
             /\ cfgChairman' = inv[t].entry_chairman]_vars

\* Two invocations, one after the other on the same task, the second one
\* with a custom council and chairman and ended by an exception of a stage
\* of the title request or of storage: the defaults are back.
C15_Witness ==
    /\ started = 2
    /\ inv[2].pc = "idle"
    /\ Done(1) /\ IsQuery(1)
    /\ inv[1].council_models # COUNCIL_MODELS
    /\ inv[1].chairman_model # CHAIRMAN_MODEL
    /\ inv[1].fault \in {"stage3", "title", "storage"}
    /\ cfgCouncil = COUNCIL_MODELS
    /\ cfgChairman = CHAIRMAN_MODEL


----------------------------------------------------------------------------
\* C16: a council_query run that returned a saved council result has made
\* each storage call and the title request exactly once, after the stages and
\* in the order create_conversation, title generation,
\* update_conversation_title, add_user_message, add_assistant_message; its
\* conversation id is its own fresh one, that conversation has the generated
\* title and holds exactly the user message followed by the assistant
\* message, and the conversation that was in the store before is unchanged.
C16_SavedRunStoresOnceInOrder ==
    \A t \in Tasks :
        ( /\ IsQuery(t) /\ Done(t)
          /\ inv[t].save_conversation
          /\ inv[t].outcome.kind = "council_result" )
        => LET cid == inv[t].outcome.conversation_id
               conv == store[cid]
           IN  /\ inv[t].calls = QueryCalls
               /\ cid = inv[t].id
               /\ cid # 0
               /\ \A u \in Tasks \ {t} : inv[u].outcome.conversation_id # cid
               /\ conv.exists
               /\ conv.title = generate_conversation_title(Question)
               /\ Len(conv.messages) = 2
               /\ conv.messages[1] = [role |-> "user", content |-> Question]
               /\ conv.messages[2].role = "assistant"
               /\ conv.messages[2].stage1 = inv[t].outcome.stage1_responses
               /\ conv.messages[2].stage3 = inv[t].outcome.stage3_synthesis
               /\ store[0] = OldConversation

\* C16 witness: two saved runs have returned their results; each has its own
\* conversation of two messages.
C16_Witness ==
    /\ \A t \in Tasks :
        /\ IsQuery(t) /\ Done(t)
        /\ inv[t].outcome.kind = "council_result"
        /\ inv[t].outcome.conversation_id = inv[t].id
        /\ Len(store[inv[t].id].messages) = 2
    /\ inv[1].id # inv[2].id


----------------------------------------------------------------------------
\* C17: whenever no handler is running, backend_config.COUNCIL_MODELS and
\* backend_config.CHAIRMAN_MODEL are the startup defaults (stated here for
\* the case that the invocations ended without being cancelled).
C17_IdleConfigIsDefault ==
    (\A t \in Tasks : ~Running(t) /\ inv[t].fault # "cancelled")
    => /\ cfgCouncil = COUNCIL_MODELS
       /\ cfgChairman = CHAIRMAN_MODEL

----------------------------------------------------------------------------
\* C18: a conversation that a returned council_query invocation created has
\* its title assigned and holds the user message and the assistant message
\* (stated here for invocations that were not cancelled).
C18_PersistenceAllOrNothing ==
    \A t \in Tasks :
        ( /\ IsQuery(t) /\ Done(t) /\ store[inv[t].id].exists
          /\ inv[t].fault # "cancelled" )
        => LET conv == store[inv[t].id]
           IN  /\ conv.title = generate_conversation_title(Question)
               /\ Len(conv.messages) = 2
               /\ conv.messages[1].role = "user"
               /\ conv.messages[2].role = "assistant"

----------------------------------------------------------------------------
\* C19: a council_stage1 response reports at least one and at most
\* models_queried responses, models_queried is the length of the requested
\* list, and every response comes from a model of that list.
C19_Stage1ResponseWithinRequest ==
    \A t \in Tasks :
        ( /\ inv[t].tool = "council_stage1" /\ Done(t)
          /\ inv[t].outcome.kind = "stage1_result" )
        => LET out == inv[t].outcome
           IN  /\ out.models_queried = Len(inv[t].council_models)
               /\ out.responses_received >= 1
               /\ out.responses_received <= out.models_queried
               /\ Range(ModelsOf(out.stage1_responses)) \subseteq Range(inv[t].council_models)

====
